---- MODULE Spec2Model ----
(***************************************************************************)
(* drjacoby: Metropolis-Hastings sampler with Metropolis coupling.         *)
(*                                                                         *)
(* The model covers System (the loaded configuration), Particle (one      *)
(* tempered chain: init, propose_phi, phi_prop_to_theta_prop,              *)
(* theta_to_phi, get_adjustment) and the sampler driver's Metropolis       *)
(* update and rung swap.                                                   *)
(*                                                                         *)
(* A C++ double is modelled exactly on a subset of the reals closed under  *)
(* the arithmetic the program performs:                                    *)
(*   [k |-> "lin", n, d]   the rational n/d           (d > 0, reduced)     *)
(*   [k |-> "log", n, d]   the real ln(n/d), n/d # 1  (n, d > 0, reduced)  *)
(*   [k |-> "nan"], [k |-> "pinf"], [k |-> "ninf"]     the IEEE specials   *)
(*   [k |-> "mix"]         a real outside the subset (never produced by    *)
(*                         the inputs enumerated; see Representable)       *)
(* ln(1) is the rational 0, so every real has one representation.  exp()   *)
(* overflows to +inf above ExpMax and underflows to 0 below 1/ExpMax, as   *)
(* the double exp() does beyond its range.  Rounding is not modelled.      *)
(***************************************************************************)
EXTENDS Integers, Sequences, FiniteSets, TLC

(***************************************************************************)
(* Bounds of the model.                                                    *)
(***************************************************************************)
\* exp(y) is +inf when y > ln(ExpMax) and 0 when y < -ln(ExpMax)
ExpMax == 2

(***************************************************************************)
(* Doubles.                                                                *)
(***************************************************************************)
RECURSIVE GCD(_, _)
GCD(a, b) ==
  IF b = 0 THEN a ELSE GCD(b, a % b)

Abs(a) ==
  IF a < 0 THEN -a ELSE a

NaN ==
  [k |-> "nan", n |-> 0, d |-> 1]

PInf ==
  [k |-> "pinf", n |-> 0, d |-> 1]

NInf ==
  [k |-> "ninf", n |-> 0, d |-> 1]

Mix ==
  [k |-> "mix", n |-> 0, d |-> 1]

\* the rational n/d, d # 0
Rat(n, d) ==
  LET g == GCD(Abs(n), Abs(d))
      sg == IF d < 0 THEN -1 ELSE 1
  IN  [k |-> "lin", n |-> (sg * n) \div g, d |-> (sg * d) \div g]

\* the real ln(n/d), n > 0, d > 0
LogQ(n, d) ==
  LET g == GCD(n, d)
  IN  IF n = d THEN Rat(0, 1) ELSE [k |-> "log", n |-> n \div g, d |-> d \div g]

Zero ==
  Rat(0, 1)

One ==
  Rat(1, 1)

IsFinite(a) ==
  a.k \in {"lin", "log"}

IsZero(a) ==
  a.k = "lin" /\ a.n = 0

\* sign of a double: -1, 0, 1 (0 also for nan)
Sign(a) ==
  CASE a.k = "lin" -> (IF a.n > 0 THEN 1 ELSE IF a.n < 0 THEN -1 ELSE 0)
    [] a.k = "log" -> (IF a.n > a.d THEN 1 ELSE -1)
    [] a.k = "pinf" -> 1
    [] a.k = "ninf" -> -1
    [] OTHER -> 0

Neg(a) ==
  CASE a.k = "lin" -> Rat(-a.n, a.d)
    [] a.k = "log" -> LogQ(a.d, a.n)
    [] a.k = "pinf" -> NInf
    [] a.k = "ninf" -> PInf
    [] OTHER -> a

Add(a, b) ==
  CASE a.k = "nan" \/ b.k = "nan" -> NaN
    [] a.k = "mix" \/ b.k = "mix" -> Mix
    [] a.k = "pinf" -> (IF b.k = "ninf" THEN NaN ELSE PInf)
    [] a.k = "ninf" -> (IF b.k = "pinf" THEN NaN ELSE NInf)
    [] b.k \in {"pinf", "ninf"} -> b
    [] IsZero(a) -> b
    [] IsZero(b) -> a
    [] a.k = "lin" /\ b.k = "lin" -> Rat(a.n * b.d + b.n * a.d, a.d * b.d)
    [] a.k = "log" /\ b.k = "log" -> LogQ(a.n * b.n, a.d * b.d)
    [] OTHER -> Mix

Sub(a, b) ==
  Add(a, Neg(b))

Mul(a, b) ==
  CASE a.k = "nan" \/ b.k = "nan" -> NaN
    [] a.k = "mix" \/ b.k = "mix" -> Mix
    [] a.k \in {"pinf", "ninf"} \/ b.k \in {"pinf", "ninf"} ->
         (IF Sign(a) * Sign(b) = 0 THEN NaN
          ELSE IF Sign(a) * Sign(b) > 0 THEN PInf ELSE NInf)
    [] IsZero(a) \/ IsZero(b) -> Zero
    [] a.k = "lin" /\ b.k = "lin" -> Rat(a.n * b.n, a.d * b.d)
    [] a = One -> b
    [] b = One -> a
    [] a = Rat(-1, 1) -> Neg(b)
    [] b = Rat(-1, 1) -> Neg(a)
    [] OTHER -> Mix

Div(a, b) ==
  CASE a.k = "nan" \/ b.k = "nan" -> NaN
    [] a.k = "mix" \/ b.k = "mix" -> Mix
    [] a.k \in {"pinf", "ninf"} ->
         (IF b.k \in {"pinf", "ninf"} THEN NaN
          ELSE IF Sign(a) * Sign(b) >= 0 THEN PInf ELSE NInf)
    [] b.k \in {"pinf", "ninf"} -> Zero
    [] IsZero(b) ->
         (IF IsZero(a) THEN NaN ELSE IF Sign(a) > 0 THEN PInf ELSE NInf)
    [] a.k = "lin" /\ b.k = "lin" -> Rat(a.n * b.d, a.d * b.n)
    [] OTHER -> Mix

\* exp() of <cmath>
Exp(a) ==
  CASE a.k = "nan" -> NaN
    [] a.k = "pinf" -> PInf
    [] a.k = "ninf" -> Zero
    [] IsZero(a) -> One
    [] a.k = "log" ->
         (IF a.n > ExpMax * a.d THEN PInf
          ELSE IF a.n * ExpMax < a.d THEN Zero
          ELSE Rat(a.n, a.d))
    [] OTHER -> Mix

\* log() of <cmath>
Log(a) ==
  CASE a.k = "nan" -> NaN
    [] a.k = "pinf" -> PInf
    [] a.k = "ninf" -> NaN
    [] a.k = "lin" ->
         (IF a.n > 0 THEN LogQ(a.n, a.d) ELSE IF a.n = 0 THEN NInf ELSE NaN)
    [] OTHER -> Mix

\* a < b on doubles (false when either is nan)
Lt(a, b) ==
  CASE a.k \in {"nan", "mix"} \/ b.k \in {"nan", "mix"} -> FALSE
    [] a.k = "pinf" -> FALSE
    [] b.k = "ninf" -> FALSE
    [] a.k = "ninf" -> TRUE
    [] b.k = "pinf" -> TRUE
    [] OTHER -> Sign(Sub(a, b)) < 0

\* sum of a vector of doubles, left to right
RECURSIVE SumTo(_, _)
SumTo(v, i) ==
  IF i = 0 THEN Zero ELSE Add(SumTo(v, i - 1), v[i])

Sum(v) ==
  SumTo(v, Len(v))


\* Bounds of the temperature ladders enumerated: rungs and GTI_pow.
MaxRungs ==
  6

MaxPow ==
  4

(***************************************************************************)
(* Inputs: the argument lists handed to System::load.                      *)
(***************************************************************************)
\* one parameter: bounds, initial value and the transform tag main.R derives
Par(lo, hi, init, tt) ==
  [min |-> lo, max |-> hi, init |-> init, tt |-> tt]

\* parameters whose initial value lies strictly inside the bounds
ParamSet ==
  { Par(NInf, PInf, Zero, 0),
    Par(NInf, Rat(2, 1), Rat(1, 1), 1),
    Par(NInf, Rat(2, 1), Rat(0, 1), 1),
    Par(Rat(1, 1), PInf, Rat(2, 1), 2),
    Par(Rat(1, 1), PInf, Rat(3, 1), 2),
    Par(Zero, Rat(3, 1), Rat(1, 1), 3),
    Par(Zero, Rat(3, 1), Rat(3, 2), 3) }

\* parameters whose initial value lies on a bound or beyond it
EdgeSet ==
  { Par(NInf, Rat(2, 1), Rat(2, 1), 1),
    Par(NInf, Rat(2, 1), Rat(3, 1), 1),
    Par(Rat(1, 1), PInf, Rat(1, 1), 2),
    Par(Rat(1, 1), PInf, Zero, 2),
    Par(Zero, Rat(3, 1), Rat(3, 1), 3),
    Par(Zero, Rat(3, 1), Rat(-1, 1), 3) }

\* transform tags outside the four the switches know
BadTags ==
  {-1, 4}

\* parameters with such a tag
BadTagSet ==
  { Par(Zero, Rat(3, 1), One, tt) : tt \in BadTags }

\* the parameters combined into two-parameter models
ParamSet2 ==
  { q \in ParamSet : q.init \in {Zero, Rat(2, 1)} \/ (q.tt = 3 /\ q.init = One) }

ArgsOf(ps, rungs) ==
  [ x |-> <<Rat(1, 1)>>,
    theta_init |-> [i \in 1..Len(ps) |-> ps[i].init],
    theta_min |-> [i \in 1..Len(ps) |-> ps[i].min],
    theta_max |-> [i \in 1..Len(ps) |-> ps[i].max],
    trans_type |-> [i \in 1..Len(ps) |-> ps[i].tt],
    burnin |-> <<1>>,
    prop_method |-> <<1>>,
    bw_update |-> <<TRUE>>,
    bw_reset |-> <<FALSE>>,
    cov_recalc |-> <<FALSE>>,
    samples |-> 1,
    rungs |-> rungs,
    coupling_on |-> TRUE,
    GTI_pow |-> One,
    chain |-> 1,
    pb_markdown |-> FALSE,
    silent |-> TRUE ]

\* the same arguments with the coupling switched off
Uncoupled(args) ==
  [args EXCEPT !.coupling_on = FALSE]

\* the same arguments with two burn-in phases: the first adapts the scale,
\* the second resets it and leaves it alone
TwoPhases(args) ==
  [args EXCEPT !.burnin = <<1, 1>>, !.prop_method = <<1, 1>>,
               !.bw_update = <<TRUE, FALSE>>, !.bw_reset = <<FALSE, TRUE>>,
               !.cov_recalc = <<FALSE, FALSE>>]

\* one particle, one or two parameters
ArgsParticle ==
  { ArgsOf(<<q>>, 1) : q \in ParamSet \cup EdgeSet \cup BadTagSet }
    \cup { ArgsOf(<<q1, q2>>, 1) : q1 \in ParamSet2, q2 \in ParamSet2 }
    \cup { ArgsOf(<<q1, q2>>, 1) : q1 \in BadTagSet, q2 \in ParamSet2 }
    \cup { ArgsOf(<<q1, q2>>, 1) : q1 \in ParamSet2, q2 \in BadTagSet }

\* vector v cut or padded (with its last element) to length n
Resize(v, n) ==
  [i \in 1..n |-> v[IF i <= Len(v) THEN i ELSE Len(v)]]

\* first parameters of the argument lists of ArgsLoad: bounds in order,
\* min > max, min = max
BoundsSet ==
  { Par(Zero, Rat(3, 1), One, 3),
    Par(Rat(5, 1), Rat(3, 1), Rat(4, 1), 3),
    Par(Rat(3, 1), Rat(3, 1), Rat(3, 1), 3) }

\* argument lists as the host can hand them over, valid or not: two
\* parameters and two burn-in phases, each per-parameter and per-phase
\* vector of length 1 or 2
ArgsLoad ==
  { [TwoPhases(ArgsOf(<<q, Par(NInf, PInf, Zero, 0)>>, 1)) EXCEPT
       !.theta_min = Resize(@, n[1]),
       !.theta_max = Resize(@, n[2]),
       !.trans_type = Resize(@, n[3]),
       !.prop_method = Resize(@, n[4]),
       !.bw_update = Resize(@, n[5]),
       !.bw_reset = Resize(@, n[6]),
       !.cov_recalc = Resize(@, n[7])] :
      q \in BoundsSet, n \in [1..7 -> 1..2] }

\* ladders of up to MaxRungs rungs with the whole powers up to MaxPow
ArgsLadder ==
  { [ArgsOf(<<Par(NInf, PInf, Zero, 0)>>, R) EXCEPT !.GTI_pow = Rat(p, 1)] :
      R \in 1..MaxRungs, p \in 1..MaxPow }

\* one or two rungs
ArgsMCMC ==
  { ArgsOf(<<q>>, 1) : q \in ParamSet }
    \cup { ArgsOf(<<q>>, 2) : q \in ParamSet2 }
    \cup { ArgsOf(<<q1, q2>>, 1) : q1 \in ParamSet2, q2 \in ParamSet2 }
    \cup { Uncoupled(ArgsOf(<<q>>, 2)) : q \in ParamSet2 }
    \cup { TwoPhases(ArgsOf(<<q>>, 1)) : q \in ParamSet2 }

\* the values of beta_raised the driver hands to Particle::init
BetaSet ==
  {Zero, One}

\* sd * Z of a normal draw, for a coordinate on the log scale and on the
\* natural scale
NoiseLog ==
  {LogQ(1, 2), Zero, LogQ(2, 1)}

NoiseLin ==
  {Rat(-1, 1), Zero, Rat(1, 1)}

\* uniform draws on (0, 1)
UnifSet ==
  {Rat(1, 4), Rat(3, 4)}

(***************************************************************************)
(* State.                                                                  *)
(***************************************************************************)
VARIABLES
  s,         \* the System object
  loaded,    \* System::load has run
  particle,  \* rung -> Particle, for the particles initialised so far
  err,       \* the message of the Rcpp::stop that aborted the run, or "none"
  drv,       \* the driver's position: [stage, phase, it, cur]
  mcmc,      \* the driver's objects: [beta_raised_vec, updated, swaps, trace]
  last       \* the operation that ran last: [op, r, u, acc]; u is the
             \* uniform draw of an update or swap and the beta_raised
             \* passed to an init, acc tells an accepted update or swap
             \* and an init that resets an existing particle

vars ==
  <<s, loaded, particle, err, drv, mcmc, last>>

\* System() {}: nothing is set by the constructor
NewSystem ==
  [ x |-> <<>>, theta_init |-> <<>>, theta_min |-> <<>>, theta_max |-> <<>>,
    trans_type |-> <<>>, d |-> 0,
    burnin |-> <<>>, prop_method |-> <<>>, bw_update |-> <<>>,
    bw_reset |-> <<>>, cov_recalc |-> <<>>, burnin_phases |-> 0,
    samples |-> 0, rungs |-> 0, coupling_on |-> FALSE, GTI_pow |-> Zero,
    chain |-> 0, pb_markdown |-> FALSE, silent |-> FALSE ]

At(stage, phase, it, cur) ==
  [stage |-> stage, phase |-> phase, it |-> it, cur |-> cur]

Op(op, r, u, acc) ==
  [op |-> op, r |-> r, u |-> u, acc |-> acc]

\* the driver before the run: no temperature ladder, nothing updated or
\* swapped in the current iteration, an empty trace
NewMCMC ==
  [beta_raised_vec |-> << >>, updated |-> {}, swaps |-> {}, trace |-> << >>]

Init ==
  /\ s = NewSystem
  /\ loaded = FALSE
  /\ particle = << >>
  /\ err = "none"
  /\ drv = At("init", 0, 0, 1)
  /\ mcmc = NewMCMC
  /\ last = Op("new", 0, Zero, FALSE)

(***************************************************************************)
(* System::load                                                            *)
(***************************************************************************)
load(args) ==
  [ x |-> args.x,
    theta_init |-> args.theta_init,
    theta_min |-> args.theta_min,
    theta_max |-> args.theta_max,
    trans_type |-> args.trans_type,
    d |-> Len(args.theta_init),
    burnin |-> args.burnin,
    prop_method |-> args.prop_method,
    bw_update |-> args.bw_update,
    bw_reset |-> args.bw_reset,
    cov_recalc |-> args.cov_recalc,
    burnin_phases |-> Len(args.burnin),
    samples |-> args.samples,
    rungs |-> args.rungs,
    coupling_on |-> args.coupling_on,
    GTI_pow |-> args.GTI_pow,
    chain |-> args.chain,
    pb_markdown |-> args.pb_markdown,
    silent |-> args.silent ]

Call_load(args) ==
  /\ ~loaded
  /\ err = "none"
  /\ s' = load(args)
  /\ loaded' = TRUE
  /\ last' = Op("load", 0, Zero, FALSE)
  /\ UNCHANGED <<particle, err, drv, mcmc>>


(***************************************************************************)
(* Host-supplied densities (pure functions of theta and the data).         *)
(***************************************************************************)
\* half-width of the triangular likelihood and of the tag-0 prior
LikeSpan ==
  Rat(3, 1)

AbsD(a) ==
  IF Sign(a) < 0 THEN Neg(a) ELSE a

\* log of a triangular likelihood around each observation: finite while
\* the summed distance to the data is below LikeSpan, -inf at LikeSpan,
\* nan beyond it
get_loglike(theta, x) ==
  LET dist == [i \in 1..Len(theta) |->
                 Sum([j \in 1..Len(x) |-> AbsD(Sub(x[j], theta[i]))])]
  IN  Log(Sub(LikeSpan, Sum(dist)))

\* log-prior: flat on the closed bounds when both are finite, flat on the
\* half-line for one bound, triangular on (-LikeSpan, LikeSpan) without
\* bounds; -inf where the density is zero
PriorDens(sy, th, i) ==
  CASE ~IsFinite(th) -> NaN
    [] Lt(th, sy.theta_min[i]) \/ Lt(sy.theta_max[i], th) -> Zero
    [] IsFinite(sy.theta_min[i]) /\ IsFinite(sy.theta_max[i]) ->
         Div(One, Sub(sy.theta_max[i], sy.theta_min[i]))
    [] IsFinite(sy.theta_min[i]) \/ IsFinite(sy.theta_max[i]) -> One
    [] Lt(AbsD(th), LikeSpan) -> Sub(LikeSpan, AbsD(th))
    [] OTHER -> Zero

get_logprior(sy, theta) ==
  Sum([i \in 1..Len(theta) |-> Log(PriorDens(sy, theta[i], i))])

\* rnorm1(mean, sd) = mean + sd * Z; dev is the value of sd * Z drawn
rnorm1(mean, sd, dev) ==
  IF Sign(sd) > 0 THEN Add(mean, dev) ELSE mean

(***************************************************************************)
(* Particle.  Each operator maps the particle p (a record of the members)  *)
(* to the particle after the call; sy is *s_ptr.                           *)
(***************************************************************************)
\* index of the first parameter whose trans_type hits the default: case,
\* d + 1 when there is none
StopAt(sy) ==
  LET bad == {i \in 1..sy.d : sy.trans_type[i] \notin 0..3}
  IN  IF bad = {} THEN sy.d + 1
      ELSE CHOOSE i \in bad : \A j \in bad : i <= j

Stops(sy) ==
  StopAt(sy) <= sy.d

\* theta_to_phi with the two logs of case 3 exchanged
theta_to_phi_i_swapped_logs(tt, lo, hi, th) ==
  CASE tt = 0 -> th
    [] tt = 1 -> Log(Sub(hi, th))
    [] tt = 2 -> Log(Sub(th, lo))
    [] tt = 3 -> Sub(Log(Sub(hi, th)), Log(Sub(th, lo)))
    [] OTHER -> NaN

\* one case of the switch in theta_to_phi
theta_to_phi_i(tt, lo, hi, th) ==
  CASE tt = 0 -> th
    [] tt = 1 -> Log(Sub(hi, th))
    [] tt = 2 -> Log(Sub(th, lo))
    [] tt = 3 -> Sub(Log(Sub(th, lo)), Log(Sub(hi, th)))
    [] OTHER -> NaN

theta_to_phi(sy, p) ==
  [p EXCEPT !.phi =
     [i \in 1..p.d |->
        IF i < StopAt(sy)
        THEN theta_to_phi_i(sy.trans_type[i], sy.theta_min[i],
                            sy.theta_max[i], p.theta[i])
        ELSE p.phi[i]]]

\* phi_prop_to_theta_prop with theta_max + exp(phi_prop) in case 1
phi_prop_to_theta_prop_i_plus(tt, lo, hi, ph) ==
  CASE tt = 0 -> ph
    [] tt = 1 -> Add(hi, Exp(ph))
    [] tt = 2 -> Add(Exp(ph), lo)
    [] tt = 3 -> Div(Add(Mul(hi, Exp(ph)), lo), Add(One, Exp(ph)))
    [] OTHER -> NaN

\* one case of the switch in phi_prop_to_theta_prop
phi_prop_to_theta_prop_i(tt, lo, hi, ph) ==
  CASE tt = 0 -> ph
    [] tt = 1 -> Sub(hi, Exp(ph))
    [] tt = 2 -> Add(Exp(ph), lo)
    [] tt = 3 -> Div(Add(Mul(hi, Exp(ph)), lo), Add(One, Exp(ph)))
    [] OTHER -> NaN

\* phi_prop_to_theta_prop storing the transformed value in theta as well
phi_prop_to_theta_prop_into_theta(sy, p) ==
  LET v == [i \in 1..p.d |->
              IF i < StopAt(sy)
              THEN phi_prop_to_theta_prop_i(sy.trans_type[i], sy.theta_min[i],
                                            sy.theta_max[i], p.phi_prop[i])
              ELSE p.theta_prop[i]]
  IN  [p EXCEPT !.theta_prop = v, !.theta = v]

phi_prop_to_theta_prop(sy, p) ==
  [p EXCEPT !.theta_prop =
     [i \in 1..p.d |->
        IF i < StopAt(sy)
        THEN phi_prop_to_theta_prop_i(sy.trans_type[i], sy.theta_min[i],
                                      sy.theta_max[i], p.phi_prop[i])
        ELSE p.theta_prop[i]]]

\* get_adjustment with the last log of case 3 added instead of subtracted
get_adjustment_i_plus(tt, lo, hi, th, thp) ==
  CASE tt = 0 -> Zero
    [] tt = 1 -> Sub(Log(Sub(thp, hi)), Log(Sub(th, hi)))
    [] tt = 2 -> Sub(Log(Sub(thp, lo)), Log(Sub(th, lo)))
    [] tt = 3 -> Add(Sub(Add(Log(Sub(hi, thp)), Log(Sub(thp, lo))),
                         Log(Sub(hi, th))),
                     Log(Sub(th, lo)))
    [] OTHER -> NaN

\* one case of the switch in get_adjustment: the term added to ret
get_adjustment_i(tt, lo, hi, th, thp) ==
  CASE tt = 0 -> Zero
    [] tt = 1 -> Sub(Log(Sub(thp, hi)), Log(Sub(th, hi)))
    [] tt = 2 -> Sub(Log(Sub(thp, lo)), Log(Sub(th, lo)))
    [] tt = 3 -> Sub(Sub(Add(Log(Sub(hi, thp)), Log(Sub(thp, lo))),
                         Log(Sub(hi, th))),
                     Log(Sub(th, lo)))
    [] OTHER -> NaN

\* get_adjustment accumulates the terms in its local ret and returns void;
\* p.ret is the value ret holds when the function is left
get_adjustment(sy, p) ==
  [p EXCEPT !.ret =
     SumTo([i \in 1..p.d |->
              get_adjustment_i(sy.trans_type[i], sy.theta_min[i],
                               sy.theta_max[i], p.theta[i], p.theta_prop[i])],
           StopAt(sy) - 1)]

\* a propose_phi that moves phi itself
propose_phi_into_phi(p, dev) ==
  [p EXCEPT !.phi =
     [i \in 1..p.d |-> rnorm1(p.phi[i], p.propSD, dev[i])]]

\* dev[i] is the deviate sd * Z drawn for coordinate i
propose_phi(p, dev) ==
  [p EXCEPT !.phi_prop =
     [i \in 1..p.d |-> rnorm1(p.phi[i], p.propSD, dev[i])]]

\* vector<double>(d)
ZeroVec(d) ==
  [i \in 1..d |-> Zero]

\* an init that does not call theta_to_phi
Particle_init_without_transform(sy, beta_raised) ==
  [ d |-> sy.d,
    beta_raised |-> beta_raised,
    theta |-> sy.theta_init,
    theta_prop |-> ZeroVec(sy.d),
    adj |-> Zero,
    phi |-> ZeroVec(sy.d),
    phi_prop |-> ZeroVec(sy.d),
    propSD |-> Rat(1, 10),
    loglike |-> Zero,
    loglike_prop |-> Zero,
    logprior |-> Zero,
    logprior_prop |-> Zero,
    accept |-> 0,
    ret |-> Zero ]

Particle_init(sy, beta_raised) ==
  LET p0 == [ d |-> sy.d,
              beta_raised |-> beta_raised,
              theta |-> sy.theta_init,
              theta_prop |-> ZeroVec(sy.d),
              adj |-> Zero,
              phi |-> ZeroVec(sy.d),
              phi_prop |-> ZeroVec(sy.d),
              propSD |-> Rat(1, 10),
              loglike |-> Zero,
              loglike_prop |-> Zero,
              logprior |-> Zero,
              logprior_prop |-> Zero,
              accept |-> 0,
              ret |-> Zero ]
      p1 == theta_to_phi(sy, p0)
  IN  [p1 EXCEPT !.phi_prop = ZeroVec(sy.d)]


(***************************************************************************)
(* The calls of the Particle interface, on the particle of rung r.         *)
(***************************************************************************)
Rungs ==
  1..s.rungs

Ready(r) ==
  /\ loaded
  /\ err = "none"
  /\ r \in DOMAIN particle

\* the deviates enumerated for a proposal
DevSet(sy) ==
  { dev \in [1..sy.d -> NoiseLin \cup NoiseLog] :
      \A i \in 1..sy.d :
        dev[i] \in (IF sy.trans_type[i] = 0 THEN NoiseLin ELSE NoiseLog) }

\* switches without a default: case
Stop_without_default(sy) ==
  "none"

Stop(sy) ==
  IF Stops(sy) THEN "trans_type invalid" ELSE "none"

Call_init(r, beta_raised) ==
  /\ loaded
  /\ err = "none"
  /\ r \in Rungs
  /\ particle' = [q \in DOMAIN particle \cup {r} |->
                    IF q = r THEN Particle_init(s, beta_raised)
                    ELSE particle[q]]
  /\ err' = Stop(s)
  /\ last' = Op("init", r, beta_raised, r \in DOMAIN particle)
  /\ UNCHANGED <<s, loaded, drv, mcmc>>

Call_propose_phi(r) ==
  /\ Ready(r)
  /\ \E dev \in DevSet(s) :
       particle' = [particle EXCEPT ![r] = propose_phi(@, dev)]
  /\ last' = Op("propose_phi", r, Zero, FALSE)
  /\ UNCHANGED <<s, loaded, err, drv, mcmc>>

\* a phi_prop_to_theta_prop that writes the result through s_ptr into the
\* System's theta_init as well
Call_phi_prop_to_theta_prop_through_s_ptr(r) ==
  /\ Ready(r)
  /\ particle' = [particle EXCEPT ![r] = phi_prop_to_theta_prop(s, @)]
  /\ s' = [s EXCEPT !.theta_init = particle'[r].theta_prop]
  /\ err' = Stop(s)
  /\ last' = Op("phi_prop_to_theta_prop", r, Zero, FALSE)
  /\ UNCHANGED <<loaded, drv, mcmc>>

Call_phi_prop_to_theta_prop(r) ==
  /\ Ready(r)
  /\ particle' = [particle EXCEPT ![r] = phi_prop_to_theta_prop(s, @)]
  /\ err' = Stop(s)
  /\ last' = Op("phi_prop_to_theta_prop", r, Zero, FALSE)
  /\ UNCHANGED <<s, loaded, drv, mcmc>>

Call_theta_to_phi(r) ==
  /\ Ready(r)
  /\ particle' = [particle EXCEPT ![r] = theta_to_phi(s, @)]
  /\ err' = Stop(s)
  /\ last' = Op("theta_to_phi", r, Zero, FALSE)
  /\ UNCHANGED <<s, loaded, drv, mcmc>>

Call_get_adjustment(r) ==
  /\ Ready(r)
  /\ particle' = [particle EXCEPT ![r] = get_adjustment(s, @)]
  /\ err' = Stop(s)
  /\ last' = Op("get_adjustment", r, Zero, FALSE)
  /\ UNCHANGED <<s, loaded, drv, mcmc>>

(***************************************************************************)
(* The Particle interface called in any order.                             *)
(***************************************************************************)
Next ==
  \/ \E args \in ArgsParticle : Call_load(args)
  \/ \E r \in Rungs, b \in BetaSet : Call_init(r, b)
  \/ \E r \in Rungs : Call_propose_phi(r)
  \/ \E r \in Rungs : Call_phi_prop_to_theta_prop(r)
  \/ \E r \in Rungs : Call_theta_to_phi(r)
  \/ \E r \in Rungs : Call_get_adjustment(r)

Spec ==
  Init /\ [][Next]_vars

\* every double of the state lies in the subset the arithmetic is exact on
Representable ==
  \A r \in DOMAIN particle :
    LET p == particle[r]
    IN  /\ \A i \in 1..p.d :
             /\ p.theta[i].k # "mix" /\ p.theta_prop[i].k # "mix"
             /\ p.phi[i].k # "mix" /\ p.phi_prop[i].k # "mix"
        /\ p.ret.k # "mix" /\ p.adj.k # "mix"
        /\ p.loglike.k # "mix" /\ p.loglike_prop.k # "mix"
        /\ p.logprior.k # "mix" /\ p.logprior_prop.k # "mix"


(***************************************************************************)
(* The sampler driver: one Metropolis update of a particle and one swap    *)
(* attempt between adjacent rungs (sections 4.3 and 4.4 of the             *)
(* specification), built on the Particle calls above.  All d coordinates   *)
(* are proposed jointly, as propose_phi does.                              *)
(***************************************************************************)
AllFinite(v) ==
  \A i \in 1..Len(v) : IsFinite(v[i])

\* steps 1-3: propose, transform, evaluate the densities of the proposal
\* (not evaluated when theta' is not finite)
Proposed(sy, p, dev) ==
  LET p2 == phi_prop_to_theta_prop(sy, propose_phi(p, dev))
  IN  IF AllFinite(p2.theta_prop)
      THEN [p2 EXCEPT !.loglike_prop = get_loglike(p2.theta_prop, sy.x),
                      !.logprior_prop = get_logprior(sy, p2.theta_prop)]
      ELSE p2

\* the proposal is rejected before the Metropolis test
NotFinite(p) ==
  \/ ~AllFinite(p.theta_prop)
  \/ ~IsFinite(p.loglike_prop)
  \/ ~IsFinite(p.logprior_prop)

\* step 4: r = beta * (l' - l) + (pi' - pi) + A, A being the particle's
\* adjustment factor
MH_ratio(p) ==
  Add(Add(Mul(p.beta_raised, Sub(p.loglike_prop, p.loglike)),
          Sub(p.logprior_prop, p.logprior)),
      p.adj)

\* step 5: the proposal replaces the current state
Accepted(p) ==
  [p EXCEPT !.theta = p.theta_prop,
            !.phi = p.phi_prop,
            !.loglike = p.loglike_prop,
            !.logprior = p.logprior_prop,
            !.accept = p.accept + 1]

\* the particle after one update with deviates dev and uniform draw u
update(sy, p, dev, u) ==
  LET p3 == Proposed(sy, p, dev)
      p4 == get_adjustment(sy, p3)
  IN  IF NotFinite(p3) THEN p3
      ELSE IF Lt(Log(u), MH_ratio(p4)) THEN Accepted(p4)
      ELSE p4

\* a swap ratio that weighs the difference by beta_r alone
swap_ratio_one_beta(pr, pq) ==
  Mul(pr.beta_raised, Sub(pq.loglike, pr.loglike))

\* s = (beta_r - beta_{r-1}) * (l_{r-1} - l_r) for rungs r and r - 1
swap_ratio(pr, pq) ==
  Mul(Sub(pr.beta_raised, pq.beta_raised), Sub(pq.loglike, pr.loglike))

\* a swap that moves beta_raised along with the state
swapped_with_beta(p, q) ==
  [p EXCEPT !.theta = q.theta,
            !.phi = q.phi,
            !.loglike = q.loglike,
            !.logprior = q.logprior,
            !.beta_raised = q.beta_raised]

\* particle p with (theta, phi, loglike, logprior) taken from q
swapped(p, q) ==
  [p EXCEPT !.theta = q.theta,
            !.phi = q.phi,
            !.loglike = q.loglike,
            !.logprior = q.logprior]

\* accept iff log(U) < s
swap_accepted(ps, r, u) ==
  Lt(Log(u), swap_ratio(ps[r], ps[r - 1]))

\* the particles after a swap attempt between rungs r and r - 1
swap(ps, r, u) ==
  IF swap_accepted(ps, r, u)
  THEN [ps EXCEPT ![r] = swapped(ps[r], ps[r - 1]),
                  ![r - 1] = swapped(ps[r - 1], ps[r])]
  ELSE ps

\* number of iterations of phase ph: the burn-in phases, then sampling
PhaseLen(sy, ph) ==
  IF ph <= sy.burnin_phases THEN sy.burnin[ph] ELSE sy.samples

Running ==
  loaded /\ err = "none"

\* ph is a burn-in phase
Burnin(sy, ph) ==
  ph <= sy.burnin_phases

\* Scale adaptation: sigma <- sigma + (alpha - alpha*) / n^gamma on the log
\* scale multiplies propSD = exp(sigma) by a factor above 1 after an accepted
\* step (alpha = 1) and below 1 after a rejected one (alpha = 0).
AdaptUp ==
  Rat(2, 1)

AdaptDown ==
  Rat(1, 2)

\* an adaptation that also runs in the sampling phase
adapt_in_every_phase(sy, ph, p, acc) ==
  IF Burnin(sy, ph) => sy.bw_update[ph]
  THEN [p EXCEPT !.propSD = Mul(@, IF acc THEN AdaptUp ELSE AdaptDown)]
  ELSE p

\* particle p after the adaptation that follows a step of phase ph with
\* accept indicator acc: only in a burn-in phase with bw_update = true
adapt(sy, ph, p, acc) ==
  IF Burnin(sy, ph) /\ sy.bw_update[ph]
  THEN [p EXCEPT !.propSD = Mul(@, IF acc THEN AdaptUp ELSE AdaptDown)]
  ELSE p

\* an update of rung r that takes the cached log-likelihood of rung 1
update_rung_reading_rung1(sy, ps, r, ph, dev, u) ==
  LET p == update(sy, [ps[r] EXCEPT !.loglike = ps[1].loglike], dev, u)
  IN  [ps EXCEPT ![r] = adapt(sy, ph, p, p.accept # ps[r].accept)]

\* the particles after the update of rung r in phase ph: the Metropolis
\* step on that particle, then its scale adaptation
update_rung(sy, ps, r, ph, dev, u) ==
  LET p == update(sy, ps[r], dev, u)
  IN  [ps EXCEPT ![r] = adapt(sy, ph, p, p.accept # ps[r].accept)]

\* at the start of burn-in phase ph with bw_reset = true the scale is reset
\* to its initial value
phase_start(sy, ps, ph) ==
  IF Burnin(sy, ph) /\ sy.bw_reset[ph]
  THEN [r \in DOMAIN ps |-> [ps[r] EXCEPT !.propSD = Rat(1, 10)]]
  ELSE ps

\* the record of one iteration: phase tag, iteration index and, for every
\* rung, theta, log-prior and log-likelihood
TraceRecord(sy, ps, ph, it) ==
  [ phase |-> IF Burnin(sy, ph) THEN "burnin" ELSE "sampling",
    iteration |-> it,
    rung |-> [r \in DOMAIN ps |->
                [theta |-> ps[r].theta, logprior |-> ps[r].logprior,
                 loglike |-> ps[r].loglike]] ]

\* Initialisation: construct the particles in rung order; each receives a
\* beta value (any of BetaSet) and the initial theta
Driver_init ==
  /\ Running
  /\ drv.stage = "init"
  /\ \E b \in BetaSet :
       /\ particle' = [q \in DOMAIN particle \cup {drv.cur} |->
                         IF q = drv.cur THEN Particle_init(s, b)
                         ELSE particle[q]]
       /\ last' = Op("init", drv.cur, b, FALSE)
  /\ err' = Stop(s)
  /\ drv' = IF drv.cur < s.rungs
            THEN At("init", 0, 0, drv.cur + 1)
            ELSE At("update", 1, 1, 1)
  /\ UNCHANGED <<s, loaded, mcmc>>

\* an update stage that starts the swaps after the update of the first rung
Driver_update_swapping_early ==
  /\ Running
  /\ drv.stage = "update"
  /\ \E dev \in DevSet(s), u \in UnifSet :
       /\ particle' = update_rung(s, particle, drv.cur, drv.phase, dev, u)
       /\ last' = Op("update", drv.cur, u,
                     particle'[drv.cur].accept # particle[drv.cur].accept)
  /\ err' = Stop(s)
  /\ drv' = IF s.coupling_on /\ s.rungs > 1
            THEN [drv EXCEPT !.stage = "swap", !.cur = s.rungs]
            ELSE IF drv.cur < s.rungs
            THEN [drv EXCEPT !.cur = drv.cur + 1]
            ELSE [drv EXCEPT !.stage = "record", !.cur = 1]
  /\ mcmc' = [mcmc EXCEPT !.updated = @ \cup {drv.cur}]
  /\ UNCHANGED <<s, loaded>>

\* an update stage that goes on to the swaps whenever there are two rungs
Driver_update_always_coupled ==
  /\ Running
  /\ drv.stage = "update"
  /\ \E dev \in DevSet(s), u \in UnifSet :
       /\ particle' = update_rung(s, particle, drv.cur, drv.phase, dev, u)
       /\ last' = Op("update", drv.cur, u,
                     particle'[drv.cur].accept # particle[drv.cur].accept)
  /\ err' = Stop(s)
  /\ drv' = IF drv.cur < s.rungs
            THEN [drv EXCEPT !.cur = drv.cur + 1]
            ELSE IF s.rungs > 1
            THEN [drv EXCEPT !.stage = "swap", !.cur = s.rungs]
            ELSE [drv EXCEPT !.stage = "record", !.cur = 1]
  /\ mcmc' = [mcmc EXCEPT !.updated = @ \cup {drv.cur}]
  /\ UNCHANGED <<s, loaded>>

\* advance every particle, in rung order; then the swaps iff coupling_on
\* and R > 1
Driver_update ==
  /\ Running
  /\ drv.stage = "update"
  /\ \E dev \in DevSet(s), u \in UnifSet :
       /\ particle' = update_rung(s, particle, drv.cur, drv.phase, dev, u)
       /\ last' = Op("update", drv.cur, u,
                     particle'[drv.cur].accept # particle[drv.cur].accept)
  /\ err' = Stop(s)
  /\ drv' = IF drv.cur < s.rungs
            THEN [drv EXCEPT !.cur = drv.cur + 1]
            ELSE IF s.coupling_on /\ s.rungs > 1
            THEN [drv EXCEPT !.stage = "swap", !.cur = s.rungs]
            ELSE [drv EXCEPT !.stage = "record", !.cur = 1]
  /\ mcmc' = [mcmc EXCEPT !.updated = @ \cup {drv.cur}]
  /\ UNCHANGED <<s, loaded>>

\* swap attempts between adjacent rungs, from rung R down to rung 2
Driver_swap ==
  /\ Running
  /\ drv.stage = "swap"
  /\ \E u \in UnifSet :
       /\ particle' = swap(particle, drv.cur, u)
       /\ last' = Op("swap", drv.cur, u, swap_accepted(particle, drv.cur, u))
  /\ drv' = IF drv.cur > 2
            THEN [drv EXCEPT !.cur = drv.cur - 1]
            ELSE [drv EXCEPT !.stage = "record", !.cur = 1]
  /\ mcmc' = [mcmc EXCEPT !.swaps = @ \cup {drv.cur}]
  /\ UNCHANGED <<s, loaded, err>>

\* end of the iteration: append its record to the trace; then the next
\* iteration, the next phase (with its reset rule), or the end of the run
Driver_record ==
  /\ Running
  /\ drv.stage = "record"
  /\ mcmc' = [mcmc EXCEPT
                !.trace = Append(@, TraceRecord(s, particle, drv.phase, drv.it)),
                !.updated = {},
                !.swaps = {}]
  /\ drv' = IF drv.it < PhaseLen(s, drv.phase)
            THEN At("update", drv.phase, drv.it + 1, 1)
            ELSE IF Burnin(s, drv.phase)
            THEN At("update", drv.phase + 1, 1, 1)
            ELSE At("done", drv.phase, drv.it, 1)
  /\ particle' = IF drv.it < PhaseLen(s, drv.phase) THEN particle
                 ELSE phase_start(s, particle, drv.phase + 1)
  /\ last' = Op("record", 0, Zero, FALSE)
  /\ UNCHANGED <<s, loaded, err>>

NextMCMC ==
  \/ \E args \in ArgsMCMC : Call_load(args)
  \/ Driver_init
  \/ Driver_update
  \/ Driver_swap
  \/ Driver_record

SpecMCMC ==
  Init /\ [][NextMCMC]_vars

(***************************************************************************)
(* Properties of the transform (checked under Spec).                       *)
(***************************************************************************)
\* th lies strictly inside the domain of a parameter with tag tt
Inside(tt, lo, hi, th) ==
  /\ IsFinite(th)
  /\ tt \in {2, 3} => Lt(lo, th)
  /\ tt \in {1, 3} => Lt(th, hi)

InsideAt(p, i, th) ==
  Inside(s.trans_type[i], s.theta_min[i], s.theta_max[i], th)

\* the particle the last call acted on
LastIs(op, r) ==
  /\ last.op = op
  /\ last.r = r
  /\ r \in DOMAIN particle
  /\ err = "none"

\* the Jacobian term of section 4.1 of the specification for one parameter,
\* written as the log of one ratio
JacobianTerm(tt, lo, hi, th, thp) ==
  CASE tt = 1 -> Log(Div(Sub(hi, thp), Sub(hi, th)))
    [] tt = 2 -> Log(Div(Sub(thp, lo), Sub(th, lo)))
    [] tt = 3 -> Log(Div(Mul(Sub(hi, thp), Sub(thp, lo)),
                         Mul(Sub(hi, th), Sub(th, lo))))
    [] OTHER -> Zero

\* A of section 4.1: the sum of the terms over the d parameters, for the
\* current theta th and the proposed theta thp
JacobianOf(th, thp) ==
  Sum([i \in 1..Len(th) |->
         JacobianTerm(s.trans_type[i], s.theta_min[i], s.theta_max[i],
                      th[i], thp[i])])

JacobianSum(p) ==
  JacobianOf(p.theta, p.theta_prop)

\* C1: for every tag and every theta strictly inside the tag's domain,
\* theta_to_phi followed by phi_prop_to_theta_prop on phi_prop = phi gives
\* back theta.
Thm_C1_RoundTrip ==
  \A r \in DOMAIN particle :
    LastIs("phi_prop_to_theta_prop", r) =>
      \A i \in 1..particle[r].d :
        (/\ InsideAt(particle[r], i, particle[r].theta[i])
         /\ particle[r].phi_prop[i] = particle[r].phi[i])
        => particle[r].theta_prop[i] = particle[r].theta[i]

Wit_C1_RoundTrip ==
  \E r \in DOMAIN particle :
    /\ LastIs("phi_prop_to_theta_prop", r)
    /\ s.trans_type = <<1, 3>>
    /\ particle[r].phi_prop = particle[r].phi
    /\ \A i \in 1..2 : ~IsZero(particle[r].phi[i])
    /\ \A i \in 1..2 : InsideAt(particle[r], i, particle[r].theta[i])
    /\ particle[r].theta_prop = particle[r].theta

\* C2: for a tag-1 parameter with theta < U and theta' < U, the term
\* get_adjustment computes is log(U - theta') - log(U - theta), finite.
Claim_C2_Tag1Term ==
  \A r \in DOMAIN particle :
    (/\ LastIs("get_adjustment", r)
     /\ s.d = 1
     /\ s.trans_type[1] = 1
     /\ InsideAt(particle[r], 1, particle[r].theta[1])
     /\ InsideAt(particle[r], 1, particle[r].theta_prop[1]))
    => /\ IsFinite(particle[r].ret)
       /\ particle[r].ret =
            Sub(Log(Sub(s.theta_max[1], particle[r].theta_prop[1])),
                Log(Sub(s.theta_max[1], particle[r].theta[1])))

\* C3: after get_adjustment, adj is the sum A of the per-parameter
\* Jacobian terms of the current and the proposed theta.
Claim_C3_AdjIsSum ==
  \A r \in DOMAIN particle :
    (/\ LastIs("get_adjustment", r)
     /\ \A i \in 1..particle[r].d :
          /\ InsideAt(particle[r], i, particle[r].theta[i])
          /\ InsideAt(particle[r], i, particle[r].theta_prop[i]))
    => particle[r].adj = JacobianSum(particle[r])

\* C4: the terms get_adjustment adds up are 0 for tag 0,
\* log(theta' - L) - log(theta - L) for tag 2 and
\* log(U - theta') + log(theta' - L) - log(U - theta) - log(theta - L) for
\* tag 3, for current and proposed values strictly inside the bounds.
Thm_C4_Terms023 ==
  \A r \in DOMAIN particle :
    (/\ LastIs("get_adjustment", r)
     /\ \A i \in 1..particle[r].d :
          /\ s.trans_type[i] \in {0, 2, 3}
          /\ InsideAt(particle[r], i, particle[r].theta[i])
          /\ InsideAt(particle[r], i, particle[r].theta_prop[i]))
    => particle[r].ret = JacobianSum(particle[r])

Wit_C4_Terms023 ==
  \E r \in DOMAIN particle :
    /\ LastIs("get_adjustment", r)
    /\ s.trans_type = <<2, 3>>
    /\ \A i \in 1..2 :
         /\ InsideAt(particle[r], i, particle[r].theta[i])
         /\ InsideAt(particle[r], i, particle[r].theta_prop[i])
         /\ particle[r].theta_prop[i] # particle[r].theta[i]
    /\ ~IsZero(particle[r].ret)
    /\ particle[r].ret = JacobianSum(particle[r])

\* C5 as claimed: for every tag and every finite phi', theta' lies strictly
\* inside the bounds.
Claim_C5_Closed ==
  \A r \in DOMAIN particle :
    LastIs("phi_prop_to_theta_prop", r) =>
      \A i \in 1..particle[r].d :
        IsFinite(particle[r].phi_prop[i])
        => InsideAt(particle[r], i, particle[r].theta_prop[i])

\* exp(a) is a positive finite double
ExpInRange(a) ==
  Exp(a).k = "lin" /\ Exp(a).n > 0

\* C5 as amended: for every tag and every finite phi' whose exp() neither
\* overflows nor underflows, theta' lies strictly inside the bounds.
Thm_C5_ClosedInRange ==
  \A r \in DOMAIN particle :
    LastIs("phi_prop_to_theta_prop", r) =>
      \A i \in 1..particle[r].d :
        (/\ IsFinite(particle[r].phi_prop[i])
         /\ s.trans_type[i] # 0 => ExpInRange(particle[r].phi_prop[i]))
        => InsideAt(particle[r], i, particle[r].theta_prop[i])

Wit_C5_ClosedInRange ==
  \E r \in DOMAIN particle :
    /\ LastIs("phi_prop_to_theta_prop", r)
    /\ s.trans_type = <<2, 3>>
    /\ \A i \in 1..2 :
         /\ particle[r].phi_prop[i] # particle[r].phi[i]
         /\ particle[r].theta_prop[i] # particle[r].theta[i]
         /\ ExpInRange(particle[r].phi_prop[i])
         /\ InsideAt(particle[r], i, particle[r].theta_prop[i])

\* C6: a proposal changes one coordinate only: at most one phi'_j differs
\* from the current phi_j.
Claim_C6_OneCoordinate ==
  \A r \in DOMAIN particle :
    LastIs("propose_phi", r) =>
      Cardinality({j \in 1..particle[r].d :
                     particle[r].phi_prop[j] # particle[r].phi[j]}) <= 1


(***************************************************************************)
(* Properties of the Metropolis update and of the swap (checked under      *)
(* SpecMCMC).                                                              *)
(***************************************************************************)
\* the current state of a particle
Current(p) ==
  <<p.theta, p.phi, p.loglike, p.logprior>>

\* the step is an update of rung r, a swap attempt between r and r - 1
UpdateStep(r) ==
  /\ drv.stage = "update"
  /\ drv' # drv
  /\ drv.cur = r

SwapStep(r) ==
  /\ drv.stage = "swap"
  /\ drv' # drv
  /\ drv.cur = r

\* C7: after every update, accepted or rejected, the particle has
\* phi = T(theta), loglike = loglike(theta), logprior = logprior(theta),
\* all finite.
Claim_C7_CacheConsistent ==
  \A r \in DOMAIN particle :
    LastIs("update", r) =>
      /\ particle[r].phi = theta_to_phi(s, particle[r]).phi
      /\ particle[r].loglike = get_loglike(particle[r].theta, s.x)
      /\ particle[r].logprior = get_logprior(s, particle[r].theta)
      /\ AllFinite(particle[r].phi)
      /\ IsFinite(particle[r].loglike)
      /\ IsFinite(particle[r].logprior)

Claim_C9_AcceptRule ==
  [][\A r \in DOMAIN particle :
       (UpdateStep(r) /\ ~NotFinite(particle'[r]))
       => LET p == particle[r]
              q == particle'[r]
              ratio == Add(Add(Mul(p.beta_raised,
                                   Sub(q.loglike_prop, p.loglike)),
                               Sub(q.logprior_prop, p.logprior)),
                           JacobianOf(p.theta, q.theta_prop))
          IN  /\ last'.acc <=> Lt(Log(last'.u), ratio)
              /\ last'.acc =>
                   /\ Current(q) = <<q.theta_prop, q.phi_prop,
                                     q.loglike_prop, q.logprior_prop>>
                   /\ q.accept = p.accept + 1
              /\ ~last'.acc =>
                   /\ Current(q) = Current(p)
                   /\ q.accept = p.accept]_vars

\* the members of a particle that stay with the rung
RungState(p) ==
  <<p.beta_raised, p.propSD, p.accept, p.adj, p.d,
    p.theta_prop, p.phi_prop, p.loglike_prop, p.logprior_prop>>

\* C10: a swap attempt leaves beta, the proposal scale and the acceptance
\* counter of every rung unchanged; an accepted swap exchanges (theta, phi,
\* log-likelihood, log-prior) of the two rungs and nothing else, a rejected
\* one changes nothing.
Thm_C10_SwapFrame ==
  [][\A r \in DOMAIN particle :
       SwapStep(r)
       => /\ DOMAIN particle' = DOMAIN particle
          /\ \A q \in DOMAIN particle :
               RungState(particle'[q]) = RungState(particle[q])
          /\ \A q \in DOMAIN particle \ {r, r - 1} :
               particle'[q] = particle[q]
          /\ last'.acc =>
               /\ Current(particle'[r]) = Current(particle[r - 1])
               /\ Current(particle'[r - 1]) = Current(particle[r])
          /\ ~last'.acc => particle' = particle]_vars

Wit_C10_SwapFrame ==
  /\ last.op = "swap"
  /\ last.acc
  /\ last.r \in DOMAIN particle
  /\ particle[last.r].theta # particle[last.r - 1].theta
  /\ particle[last.r].beta_raised # particle[last.r - 1].beta_raised
  /\ particle[last.r].accept # particle[last.r - 1].accept


(***************************************************************************)
(* Properties of the driver's iteration (checked under SpecMCMC).          *)
(***************************************************************************)
\* C11: a swap attempt is made only when coupling_on is true and rungs > 1:
\* with one rung, or with the coupling off, no step of the run is a swap
\* attempt and the driver never stands at the swap stage
Thm_C11_SwapsOnlyWhenCoupled ==
  (last.op = "swap" \/ drv.stage = "swap" \/ mcmc.swaps # {})
    => (s.coupling_on /\ s.rungs > 1)

\* a run of two rungs with the coupling off has ended, both iterations
\* recorded
Wit_C11_SwapsOnlyWhenCoupled ==
  /\ drv.stage = "done"
  /\ s.rungs = 2
  /\ ~s.coupling_on
  /\ Len(mcmc.trace) = 2

\* C12: when the two rungs of a swap attempt have equal beta the swap
\* log-ratio is 0 and the attempt is accepted whatever the uniform draw: the
\* two rungs exchange their current states
Thm_C12_EqualBetaAccepts ==
  [][\A r \in DOMAIN particle :
       (SwapStep(r) /\ particle[r].beta_raised = particle[r - 1].beta_raised)
         => /\ swap_ratio(particle[r], particle[r - 1]) = Zero
            /\ \A u \in UnifSet : swap_accepted(particle, r, u)
            /\ last'.acc
            /\ Current(particle'[r]) = Current(particle[r - 1])
            /\ Current(particle'[r - 1]) = Current(particle[r])]_vars

\* a swap between two rungs of equal beta and different log-likelihoods
\* has been accepted with the larger uniform draw
Wit_C12_EqualBetaAccepts ==
  /\ last.op = "swap"
  /\ last.acc
  /\ last.u = Rat(3, 4)
  /\ last.r \in DOMAIN particle
  /\ particle[last.r].beta_raised = particle[last.r - 1].beta_raised
  /\ particle[last.r].loglike # particle[last.r - 1].loglike

\* the step appends the record of the iteration to the trace
RecordStep ==
  /\ drv.stage = "record"
  /\ drv' # drv

\* C13: every iteration runs update-all, then swap-all, then record: a rung
\* is updated before any swap of the iteration and after the rungs below it,
\* a swap is attempted only when every rung has been updated, and the record
\* is made when all updates and all swaps of the iteration are done and
\* holds the state the particles have at that point
Thm_C13_IterationOrder ==
  [][/\ \A r \in DOMAIN particle :
          /\ UpdateStep(r) => /\ mcmc.swaps = {}
                              /\ mcmc.updated = 1..(r - 1)
          /\ SwapStep(r) => /\ mcmc.updated = Rungs
                            /\ mcmc.swaps = (r + 1)..s.rungs
     /\ RecordStep =>
          /\ mcmc.updated = Rungs
          /\ mcmc.swaps = (IF s.coupling_on THEN 2..s.rungs ELSE {})
          /\ Len(mcmc'.trace) = Len(mcmc.trace) + 1
          /\ SubSeq(mcmc'.trace, 1, Len(mcmc.trace)) = mcmc.trace
          /\ LET rec == mcmc'.trace[Len(mcmc'.trace)]
             IN  /\ rec.iteration = drv.it
                 /\ DOMAIN rec.rung = Rungs
                 /\ \A r \in Rungs :
                      /\ rec.rung[r].theta = particle[r].theta
                      /\ rec.rung[r].logprior = particle[r].logprior
                      /\ rec.rung[r].loglike = particle[r].loglike]_vars

\* two iterations of a coupled two-rung run have been recorded, with
\* different states, the second showing different states on the two rungs
Wit_C13_IterationOrder ==
  /\ last.op = "record"
  /\ s.rungs = 2
  /\ s.coupling_on
  /\ Len(mcmc.trace) = 2
  /\ mcmc.trace[1].rung # mcmc.trace[2].rung
  /\ mcmc.trace[2].rung[1].theta # mcmc.trace[2].rung[2].theta

NextLoad ==
  \E args \in ArgsLoad : Call_load(args)

SpecLoad ==
  Init /\ [][NextLoad]_vars

\* some parameter of the loaded configuration has min >= max
BadBounds(sy) ==
  \E i \in (DOMAIN sy.theta_min) \cap (DOMAIN sy.theta_max) :
    ~Lt(sy.theta_min[i], sy.theta_max[i])

\* a per-parameter vector does not have d elements, or a per-phase vector
\* does not have burnin_phases elements
LengthMismatch(sy) ==
  \/ Len(sy.theta_min) # sy.d
  \/ Len(sy.theta_max) # sy.d
  \/ Len(sy.trans_type) # sy.d
  \/ Len(sy.prop_method) # sy.burnin_phases
  \/ Len(sy.bw_update) # sy.burnin_phases
  \/ Len(sy.bw_reset) # sy.burnin_phases
  \/ Len(sy.cov_recalc) # sy.burnin_phases

\* C17: a configuration in which some parameter has min >= max is never
\* loaded: load fails with a ConfigError, so no state has such a
\* configuration loaded and no error raised
Claim_C17_BoundsRejected ==
  ~(loaded /\ BadBounds(s) /\ err = "none")

\* C18: a configuration whose per-parameter or per-phase vectors have the
\* wrong length is never loaded: load fails with a ConfigError
Claim_C18_LengthsRejected ==
  ~(loaded /\ LengthMismatch(s) /\ err = "none")

(***************************************************************************)
(* Domain errors (checked under Spec).                                     *)
(***************************************************************************)
\* some coordinate of th violates the bounds its transform needs:
\* th >= max for tags 1 and 3, th <= min for tags 2 and 3
Violates(sy, th) ==
  \E i \in 1..sy.d :
    \/ sy.trans_type[i] \in {1, 3} /\ ~Lt(th[i], sy.theta_max[i])
    \/ sy.trans_type[i] \in {2, 3} /\ ~Lt(sy.theta_min[i], th[i])

\* C19: theta_to_phi (called by init as well) and get_adjustment, applied
\* to a particle whose theta violates the bounds, fail with a DomainError
Claim_C19_DomainError ==
  \A r \in DOMAIN particle :
    (/\ last.op \in {"init", "theta_to_phi", "get_adjustment"}
     /\ last.r = r
     /\ Violates(s, particle[r].theta))
      => err = "DomainError"

(***************************************************************************)
(* The temperature ladder (section 3 of the specification).                *)
(***************************************************************************)
\* pow(x, n) for a whole n >= 1
RECURSIVE PowN(_, _)
PowN(x, n) ==
  IF n <= 1 THEN x ELSE Mul(x, PowN(x, n - 1))

\* a ladder with r in place of r - 1
ladder_from_r(sy, r) ==
  PowN(Div(Rat(r, 1), Rat(sy.rungs - 1, 1)), sy.GTI_pow.n)

\* beta_r = ((r - 1) / (R - 1)) ^ GTI_pow, in doubles
ladder(sy, r) ==
  PowN(Div(Rat(r - 1, 1), Rat(sy.rungs - 1, 1)), sy.GTI_pow.n)

\* the driver computes the next entry of the ladder
Driver_ladder ==
  /\ Running
  /\ particle = << >>
  /\ Len(mcmc.beta_raised_vec) < s.rungs
  /\ mcmc' = [mcmc EXCEPT !.beta_raised_vec =
                Append(@, ladder(s, Len(@) + 1))]
  /\ last' = Op("ladder", Len(mcmc.beta_raised_vec) + 1, Zero, FALSE)
  /\ UNCHANGED <<s, loaded, particle, err, drv>>

NextLadder ==
  \/ \E args \in ArgsLadder : Call_load(args)
  \/ Driver_ladder

SpecLadder ==
  Init /\ [][NextLadder]_vars

\* the ladder b is complete for R rungs, every entry is a finite number,
\* the first is 0, the last is 1 and no entry is below the one before it
WellFormedLadder(b, R) ==
  /\ Len(b) = R
  /\ \A r \in 1..R : IsFinite(b[r])
  /\ b[1] = Zero
  /\ b[R] = One
  /\ \A r \in 1..(R - 1) : ~Lt(b[r + 1], b[r])

SystemData(sy) ==
  <<sy.x, sy.theta_init, sy.theta_min, sy.theta_max, sy.trans_type, sy.d>>

\* C22: once loaded, the System's x, theta_init, theta_min, theta_max,
\* trans_type and d are changed by no Particle operation (init,
\* propose_phi, phi_prop_to_theta_prop, theta_to_phi, get_adjustment), in
\* any sequence and on any particle
Thm_C22_SystemImmutable ==
  [][loaded => SystemData(s') = SystemData(s)]_vars

\* a proposal different from theta_init has been transformed back by a
\* particle whose theta is theta_init
Wit_C22_SystemImmutable ==
  /\ LastIs("phi_prop_to_theta_prop", 1)
  /\ particle[1].theta = s.theta_init
  /\ particle[1].theta_prop # s.theta_init
  /\ AllFinite(particle[1].theta_prop)

(***************************************************************************)
(* Transform-tag dispatch (checked under Spec).                            *)
(***************************************************************************)
\* the System with the tag of parameter i replaced by tt
WithTag(sy, i, tt) ==
  [sy EXCEPT !.trans_type[i] = tt]

\* C23: a trans_type outside {0, 1, 2, 3} makes each of theta_to_phi,
\* phi_prop_to_theta_prop and get_adjustment abort with "trans_type
\* invalid", leaving no value for that parameter and the ones after it.
\* First conjunct: the call the program reaches with such a tag, the
\* theta_to_phi of init.  Second conjunct: each of the three methods, on
\* every particle reached, for every parameter given a tag of BadTags.
Thm_C23_DispatchChecked ==
  /\ \A r \in DOMAIN particle :
       (last.op = "init" /\ last.r = r /\ Stops(s))
         => /\ err = "trans_type invalid"
            /\ \A i \in 1..s.d :
                 particle[r].phi[i] =
                   IF i < StopAt(s)
                   THEN theta_to_phi_i(s.trans_type[i], s.theta_min[i],
                                       s.theta_max[i], s.theta_init[i])
                   ELSE Zero
  /\ \A r \in DOMAIN particle :
       (err = "none") =>
         \A i \in 1..s.d, tt \in BadTags :
           LET sy == WithTag(s, i, tt)
               p == particle[r]
           IN  /\ Stop(sy) = "trans_type invalid"
               /\ \A j \in i..s.d :
                    /\ theta_to_phi(sy, p).phi[j] = p.phi[j]
                    /\ phi_prop_to_theta_prop(sy, p).theta_prop[j]
                         = p.theta_prop[j]
               /\ get_adjustment(sy, p).adj = p.adj

\* init has aborted on the second of two parameters, the first having been
\* transformed
Wit_C23_DispatchChecked ==
  /\ last.op = "init"
  /\ err = "trans_type invalid"
  /\ s.d = 2
  /\ StopAt(s) = 2
  /\ 1 \in DOMAIN particle
  /\ particle[1].phi[1] # Zero
  /\ particle[1].phi[2] = Zero

(***************************************************************************)
(* Particle::init (checked under Spec).                                    *)
(***************************************************************************)
\* phi = T(theta) of section 4.1 of the specification, tag 3 written as the
\* log of one ratio
TransformOf(tt, lo, hi, th) ==
  CASE tt = 0 -> th
    [] tt = 1 -> Log(Sub(hi, th))
    [] tt = 2 -> Log(Sub(th, lo))
    [] tt = 3 -> Log(Div(Sub(th, lo), Sub(hi, th)))

\* C24: after an init that did not abort, whatever the particle was before
\* (absent, or left by any earlier calls), theta is the System's theta_init,
\* phi is T(theta_init) in every coordinate whose theta_init is inside the
\* bounds, beta_raised is the value passed in, the proposal scale is 0.1,
\* the acceptance counter is 0 and nothing is left of an earlier proposal
Thm_C24_InitFresh ==
  \A r \in DOMAIN particle :
    LastIs("init", r) =>
      /\ particle[r].theta = s.theta_init
      /\ \A i \in 1..s.d :
           InsideAt(particle[r], i, s.theta_init[i])
             => particle[r].phi[i] =
                  TransformOf(s.trans_type[i], s.theta_min[i],
                              s.theta_max[i], s.theta_init[i])
      /\ particle[r].beta_raised = last.u
      /\ particle[r].propSD = Rat(1, 10)
      /\ particle[r].accept = 0
      /\ particle[r].phi_prop = ZeroVec(s.d)
      /\ particle[r].theta_prop = ZeroVec(s.d)
      /\ particle[r].d = s.d

\* an existing particle has been reset with beta_raised = 1; its theta_init
\* is inside two finite bounds and phi is not 0
Wit_C24_InitFresh ==
  /\ LastIs("init", 1)
  /\ last.acc
  /\ last.u = One
  /\ s.trans_type = <<3>>
  /\ s.theta_init = <<One>>
  /\ particle[1].phi # <<Zero>>

\* every theta_init lies in the closed interval of its bounds
InitInBounds(sy) ==
  \A i \in 1..sy.d :
    /\ IsFinite(sy.theta_init[i])
    /\ ~Lt(sy.theta_init[i], sy.theta_min[i])
    /\ ~Lt(sy.theta_max[i], sy.theta_init[i])

\* C25: right after init (of a configuration with theta_init within its
\* bounds) the cached log-likelihood and log-prior are the densities of the
\* initial state, loglike(theta_init, x) and logprior(theta_init)
Claim_C25_InitCaches ==
  \A r \in DOMAIN particle :
    (LastIs("init", r) /\ InitInBounds(s)) =>
      /\ particle[r].loglike = get_loglike(s.theta_init, s.x)
      /\ particle[r].logprior = get_logprior(s, s.theta_init)

\* C26: for every descriptor with theta_init in [min, max], the bounds
\* included, init leaves a finite phi in every coordinate
Claim_C26_InitPhiFinite ==
  \A r \in DOMAIN particle :
    (LastIs("init", r) /\ InitInBounds(s)) => AllFinite(particle[r].phi)

\* the members a proposal must not touch: everything but phi_prop,
\* theta_prop, the adjustment factor and get_adjustment's local ret
CurrentState(p) ==
  <<p.theta, p.phi, p.loglike, p.logprior, p.beta_raised, p.accept,
    p.propSD, p.d, p.loglike_prop, p.logprior_prop>>

\* C27: propose_phi, phi_prop_to_theta_prop and get_adjustment, in any
\* sequence, leave the particle's theta, phi, cached log-likelihood, cached
\* log-prior, beta_raised and acceptance counter (and every other member
\* but phi_prop, theta_prop and the adjustment) unchanged, and touch no
\* other particle
Thm_C27_ProposalFrame ==
  [][\A r \in DOMAIN particle :
       (/\ last'.op \in {"propose_phi", "phi_prop_to_theta_prop",
                         "get_adjustment"}
        /\ last'.r = r)
         => /\ DOMAIN particle' = DOMAIN particle
            /\ CurrentState(particle'[r]) = CurrentState(particle[r])
            /\ \A q \in DOMAIN particle \ {r} : particle'[q] = particle[q]]_vars

\* a proposal away from the current state has been built and its
\* adjustment computed
Wit_C27_ProposalFrame ==
  /\ LastIs("get_adjustment", 1)
  /\ particle[1].phi_prop # particle[1].phi
  /\ particle[1].theta_prop # particle[1].theta
  /\ AllFinite(particle[1].theta_prop)
  /\ particle[1].ret # Zero

====
